---- MODULE Spec2Model ----
(***************************************************************************)
(* The map dashboard of HackHarvard2025 as a state machine.                *)
(*                                                                         *)
(* components/Map exists in two revisions: Map.tsx (building markers that  *)
(* the component fetches itself, ver = "bld") and the pinpoint revision    *)
(* (markers for the store's pinpoints, created on style.load, ver = "pin").*)
(* One revision is deployed at a time, so ver is fixed by Init.            *)
(*                                                                         *)
(* A React component instance owns its state and refs.  When it unmounts,  *)
(* its pending promises and timers survive as continuations of a dead      *)
(* instance (zFetches, zPasses, zTimers): they still run the code of the   *)
(* closure they captured, against the refs the cleanup left behind.        *)
(***************************************************************************)
EXTENDS Integers, Sequences, FiniteSets, TLC

\* ---------------------------------------------------------------- bounds
MaxId == 2
MaxMounts == 2
MaxStyleLoads == 2
MaxTraffic == 2
MaxWeatherReqs == 2
MaxVersion == 2
MaxInFlight == 2
MaxForecast == 2
MaxTicks == 3
MaxClock == 2

Ids == 1..MaxId
None == <<>>
NoSnap == <<0>>
FetchKinds == {"traffic", "weather", "buildings"}
StoreKinds == {"buildings", "insights", "stats", "mapData"}
StudyCases == {"traffic", "weather", "energy"}

\* A snapshot: a list of entities with distinct ids (kept in ascending order).
Snapshots ==
  {s \in UNION {[1..n -> Ids] : n \in 0..MaxId} :
     \A i \in DOMAIN s : \A j \in DOMAIN s : i < j => s[i] < s[j]}

SeqIds(s) == {s[i] : i \in DOMAIN s}

VARIABLES
  ver,          \* "bld": Map.tsx, "pin": the pinpoint revision of components/Map
  mapOk,        \* the browser supports Mapbox GL and the token is valid
  mounted,      \* a Map instance is mounted
  mountsLeft,   \* mounts the environment may still perform
  mapCur,       \* map.current of the live instance is a map (not null)
  styleLoads,   \* times 'style.load' fired on the live map
  buildingData, \* Map.tsx state buildingData: the ids, in order
  fetches,      \* the live instance's mount fetches still in flight
  passOn,       \* addBuildingMarkers of the live instance is awaiting a readings fetch
  passRest,     \* the buildings that pass has still to process (head: the awaited one)
  reg,          \* markersRef.current of the live instance: id -> marker handle or None
  onMap,        \* marker handles attached to the live map
  zFetches,     \* number of mount fetches of dead instances still in flight
  zPasses,      \* marker passes of dead instances: what each has still to process
  zReg,         \* marker handles held by the registries of dead instances
  pins,         \* store.pinpoints: the ids, in order
  prevSnap,     \* history: the snapshot applied before the current one, or NoSnap
  trafficData,  \* Map.tsx state trafficData: number of data points loaded
  weatherData,  \* Map.tsx state weatherData: number of records loaded
  currentIndex, \* Map.tsx state currentIndex
  tTimers,      \* pending 3 s intervals created by the traffic cycle effect
  pointer,      \* what the mouse pointer is over: None, a marker handle, "bldg", "road"
  clickRef,     \* clickPopup.current of the live instance: a popup or None
  open,         \* the popups attached to the live map
  closeL,       \* marker popups that carry the 'close' listener of lines 501-505
  timers,       \* one-shot timers of the live instance still pending
  zTimers,      \* one-shot timers of dead instances still pending
  lateErrors,   \* history: a callback of a dead instance threw an uncaught error
  zRan,         \* history: a promise continuation of a dead instance has run
  atUnmount,    \* history: what the latest unmount of each component found
  appsMounted,  \* the weather page (Apps) is mounted
  appsLeft,     \* mounts of the weather page the environment may still perform
  wTimer,       \* pending 5 min intervals of the weather page
  wStage,       \* its requests in flight: how many await fetch 1, fetch 2
  wIssued,      \* requests the weather page has issued so far
  wLoading,     \* weather page state loading
  wError,       \* weather page state error is set
  wData,        \* weather page state currentWeather: a version, 0 for null
  zW,           \* requests of unmounted weather pages still in flight
  lastArrived,  \* history: the response that arrived last, <<ok, version>>
  dashMounted,  \* the Dashboard (the application root) is mounted
  sLoading,     \* store.loading
  sError,       \* store.error is set
  sData,        \* store data per resource: 1 when loaded, 0 when empty or null
  sReqs,        \* store requests in flight per resource
  sLast,        \* history: the store response that arrived last, <<kind, ok>>
                \* (kind "generate" for generateFast), and how the promise of
                \* its store action settled
  sGen,         \* generateAllData is awaiting api.dashboard.generateFast (0 or 1)
  polls,        \* history: the fetches AnalysisPanel started on an empty
                \* response, counted modulo 2
  activeStudyCase, \* store.activeStudyCase: a study case, or "none" for null
  hl,           \* markers whose element carries the highlight style
  selTrace,     \* history: the latest two selections, <<case, active before>>
  badCoords,    \* ids whose building record has no numeric longitude/latitude
  coordReports, \* history: console levels that reported an entity of badCoords
  passFailed,   \* history: the promise of addBuildingMarkers rejected
  gone,         \* history: ids whose marker the latest unmount removed
  leftWhile,    \* history: a pointer-leave closed a hover popup beside a click popup
  wTicks,       \* history: ticks of the 5 min interval in the live weather page
  wRetries,     \* history: presses of Try Again in the live weather page
  rPend,        \* history: requests of the latest Retry still in flight
  rDone,        \* history: how the latest Retry went
  feed,         \* the traffic endpoint's data points: <<northbound, southbound>>
                \* vehicle totals, in list order
  forecast,     \* the weather endpoint's records: their weatherType, in order
  trafficVolumeNB, \* Map.tsx state trafficVolumeNB (0..100)
  trafficVolumeSB, \* Map.tsx state trafficVolumeSB (0..100)
  currentWeatherIndex, \* Map.tsx state currentWeatherIndex: a number or NaN
  showAlert,    \* Map.tsx state showAlert
  lastAlertSent, \* Map.tsx state lastAlertSent (ms)
  now,          \* Date.now() (ms)
  lastMail,     \* history: when the latest alert e-mail request was sent, or NaN
  ticks,        \* history: ticks of the 3 s interval in the live instance,
                \* counted up to MaxTicks + 1
  applied,      \* history: index of the data point the latest tick applied, or NaN
  roads,        \* line colours of the Mass Ave layers <<northbound, southbound>>,
                \* or None while the layers do not exist
  selectedBuilding, \* Dashboard state selectedBuilding: an id, 0 for null
  isModalOpen,  \* Dashboard state isModalOpen
  mLoading,     \* BuildingDetailModal state loading
  mHeld,        \* the building whose readings and insights the modal holds, 0: none
  mReqs         \* fetchBuildingData calls of the live modal in flight, per building

coreVars == <<ver, mapOk, mounted, mountsLeft, mapCur, styleLoads,
              buildingData, fetches, passOn, passRest, reg, onMap, zFetches,
              zPasses, zReg, pins, prevSnap>>
trafVars == <<trafficData, weatherData, currentIndex, tTimers>>
popVars == <<pointer, clickRef, open, closeL, timers, zTimers, lateErrors>>
ghostVars == <<zRan, atUnmount, gone, leftWhile>>
appsVars == <<appsMounted, appsLeft, wTimer, wStage, wIssued, wLoading, wError,
              wData, zW, lastArrived, wTicks, wRetries>>
dashVars == <<dashMounted, sLoading, sError, sData, sReqs, sLast, sGen,
              polls>>
selVars == <<activeStudyCase, hl, selTrace>>
qualVars == <<badCoords, coordReports, passFailed>>
retryVars == <<rPend, rDone>>
alertVars == <<feed, forecast, trafficVolumeNB, trafficVolumeSB,
               currentWeatherIndex, showAlert, lastAlertSent, now, lastMail,
               ticks, applied, roads>>
modalVars == <<selectedBuilding, isModalOpen, mLoading, mHeld, mReqs>>
vars == <<coreVars, trafVars, popVars, ghostVars, appsVars, dashVars, selVars,
          qualVars, retryVars, alertVars, modalVars>>

\* ------------------------------------------------------------- registry
EmptyReg == [i \in Ids |-> None]

\* a registry whose set loses the entry
RegSetLost(r, id, h) == r

RegSet(r, id, h) == [r EXCEPT ![id] = h]

RegMarkers(r) == {r[i] : i \in Ids} \ {None}

RegSize(r) == Cardinality({i \in Ids : r[i] # None})

\* new mapboxgl.Marker(...): a handle distinct from every marker on the map
NewMarker(id, m) ==
  <<id, CHOOSE k \in 0..Cardinality(m) :
          /\ <<id, k>> \notin m
          /\ \A j \in 0..(k - 1) : <<id, j>> \in m>>

\* a map reference that every instance, dead or live, would share
MapRefShared(live) == mapCur

\* map.current as the closure of an instance reads it: a dead instance's
\* cleanup has set it to null
MapRefOf(live) == live /\ mapCur

\* ------------------------------------------- traffic volumes and weather
\* the value of an arithmetic expression that is not a number
NaN == -1

Min(a, b) == IF a < b THEN a ELSE b
Max(a, b) == IF a > b THEN a ELSE b

\* Math.round(p / q) for q > 0: the nearest integer, halves upwards
RoundDiv(p, q) == (2 * p + q) \div (2 * q)

\* a direction's volume on the 0-100 scale: 400 vehicles are 100
Volume(total) == Min(100, RoundDiv(total * 100, 400))

\* the initial values of the state trafficVolumeNB and trafficVolumeSB
InitialNB == 35
InitialSB == 68

\* data points around the thresholds of the alert rule: the larger volume
\* of each is 15, 16, 35, 36, 65, 66
PointTable ==
  << <<60, 60>>, <<62, 20>>, <<140, 140>>, <<142, 100>>, <<100, 260>>,
     <<262, 262>> >>

\* the lists the traffic endpoint may hold: MaxTraffic successive points
Feeds ==
  {[i \in 1..MaxTraffic |->
      PointTable[((o + i - 1) % Len(PointTable)) + 1]] :
     o \in 0..(Len(PointTable) - 1)}

\* a list whose points all carry the initial volumes
DefaultFeed == [i \in 1..MaxTraffic |-> <<140, 272>>]

WeatherTable == <<"Rainy", "Thunder Storm", "Ice", "Sunny">>

\* the lists the weather endpoint may hold: MaxForecast successive types
Forecasts ==
  {[i \in 1..MaxForecast |->
      WeatherTable[((o + i - 1) % Len(WeatherTable)) + 1]] :
     o \in 0..(Len(WeatherTable) - 1)}

DefaultForecast == [i \in 1..MaxForecast |-> "Sunny"]

\* a rule whose rain threshold admits 65
WeatherAlertFrom65(weatherType, nb, sb) ==
  \/ weatherType = "Rainy" /\ Max(nb, sb) >= 65
  \/ weatherType = "Thunder Storm" /\ Max(nb, sb) > 35
  \/ weatherType = "Ice" /\ Max(nb, sb) > 15

\* the weather-alert rule: the alert text is non-empty
WeatherAlert(weatherType, nb, sb) ==
  \/ weatherType = "Rainy" /\ Max(nb, sb) > 65
  \/ weatherType = "Thunder Storm" /\ Max(nb, sb) > 35
  \/ weatherType = "Ice" /\ Max(nb, sb) > 15

\* the throttle of sendPoopAlert, in ms
Throttle == 10000

\* sendPoopAlert returns without sending
Throttled(t, last) == t - last < Throttle

\* Date.now() when the page opens: far more than Throttle after the epoch
Epoch == 2 * Throttle

\* the clock advances in steps of 5 s
ClockStep == Throttle \div 2

\* (prevIndex + 1) % n as JavaScript computes it: NaN for n = 0, and NaN
\* stays NaN
NextWeatherIndex(prevIndex, n) ==
  IF n = 0 \/ prevIndex = NaN THEN NaN ELSE (prevIndex + 1) % n

\* an index update that stays where it is
NextIndexStuck(i, n) == i

\* (prevIndex + 1) % trafficData.length, for n > 0
NextIndex(i, n) == (i + 1) % n

\* getTrafficColor: the <<r, g, b>> of the colour string
getTrafficColor(volume) ==
  IF volume <= 33
    THEN <<RoundDiv(34 * 33 + (139 - 34) * volume, 33),
           RoundDiv(197 * 33 + (195 - 197) * volume, 33),
           RoundDiv(94 * 33 + (66 - 94) * volume, 33)>>
  ELSE IF volume <= 66
    THEN <<RoundDiv(139 * 33 + (245 - 139) * (volume - 33), 33),
           RoundDiv(195 * 33 + (158 - 195) * (volume - 33), 33),
           RoundDiv(66 * 33 + (11 - 66) * (volume - 33), 33)>>
  ELSE <<RoundDiv(245 * 34 + (239 - 245) * (volume - 66), 34),
         RoundDiv(158 * 34 - 158 * (volume - 66), 34),
         RoundDiv(11 * 34 - 11 * (volume - 66), 34)>>

\* the weather-alert effect with n records, index idx and volumes nb, sb:
\* what it leaves in showAlert and lastAlertSent, and when the latest
\* e-mail request went out.  It returns early on an empty list; reading a
\* record that is not there throws before any state is set.
WeatherAlertEffect(n, idx, nb, sb) ==
  IF n = 0 \/ idx \notin 0..(n - 1)
    THEN [show |-> showAlert, sent |-> lastAlertSent, mail |-> lastMail]
    ELSE LET alert == WeatherAlert(forecast[idx + 1], nb, sb)
             send == alert /\ ~Throttled(now, lastAlertSent)
         IN [show |-> alert,
             sent |-> IF send THEN now ELSE lastAlertSent,
             mail |-> IF send THEN now ELSE lastMail]

\* the weather-alert effect of the committed render reads a record that
\* is not there
EffectPending ==
  /\ mounted
  /\ weatherData > 0
  /\ currentWeatherIndex \notin 0..(weatherData - 1)

\* the road colour effect with volumes nb, sb: it paints the layers that
\* exist on the map
RoadEffect(nb, sb) ==
  IF mapCur /\ roads # None
    THEN <<getTrafficColor(nb), getTrafficColor(sb)>>
    ELSE roads

\* ----------------------------------------------------------------- Init
\* the state before the first mount; n: the mounts the environment will perform
InitMounts(n) ==
  /\ ver \in {"bld", "pin"}
  /\ mapOk \in BOOLEAN
  /\ mounted = FALSE
  /\ mountsLeft = n
  /\ mapCur = FALSE
  /\ styleLoads = 0
  /\ buildingData = <<>>
  /\ fetches = {}
  /\ passOn = FALSE
  /\ passRest = <<>>
  /\ reg = EmptyReg
  /\ onMap = {}
  /\ zFetches = 0
  /\ zPasses = {}
  /\ zReg = {}
  /\ pins \in (IF ver = "pin" THEN Snapshots ELSE {<<>>})
  /\ prevSnap = NoSnap

InitCore == InitMounts(MaxMounts)

InitTraf ==
  /\ trafficData = 0
  /\ weatherData = 0
  /\ currentIndex = 0
  /\ tTimers = 0

InitPop ==
  /\ pointer = None
  /\ clickRef = None
  /\ open = {}
  /\ closeL = {}
  /\ timers = {}
  /\ zTimers = {}
  /\ lateErrors = FALSE

InitGhost ==
  /\ zRan = FALSE
  /\ atUnmount = {}
  /\ gone = {}
  /\ leftWhile = FALSE

\* the weather page before its first mount: loading starts true
InitAppsMounts(n) ==
  /\ appsMounted = FALSE
  /\ appsLeft = n
  /\ wTimer = 0
  /\ wStage = <<0, 0>>
  /\ wIssued = 0
  /\ wLoading = TRUE
  /\ wError = FALSE
  /\ wData = 0
  /\ zW = 0
  /\ lastArrived = None
  /\ wTicks = 0
  /\ wRetries = 0

InitApps == InitAppsMounts(MaxMounts)

\* the store as created, before the Dashboard mounts
InitDash ==
  /\ dashMounted = FALSE
  /\ sLoading = FALSE
  /\ sError = FALSE
  /\ sData = [k \in StoreKinds |-> 0]
  /\ sReqs = [k \in StoreKinds |-> 0]
  /\ sLast = None
  /\ sGen = 0
  /\ polls = 0

\* the store's selection as created: null in dashboardStore.ts (the store
\* that lists pinpoints), 'energy' in the store of the Dashboard revision
\* (whose pinpoints list is empty)
InitSel ==
  /\ activeStudyCase = (IF pins # <<>> THEN "none" ELSE "energy")
  /\ hl = {}
  /\ selTrace = <<>>

InitQual ==
  /\ badCoords = {}
  /\ coordReports = {}
  /\ passFailed = FALSE

InitRetry == rPend = {} /\ rDone = "none"

\* the state of a Map before the traffic and weather answers, with
\* endpoints that hold the lists f and w
InitWx(f, w) ==
  /\ feed = f
  /\ forecast = w
  /\ trafficVolumeNB = InitialNB
  /\ trafficVolumeSB = InitialSB
  /\ currentWeatherIndex = 0
  /\ showAlert = FALSE
  /\ lastAlertSent = 0
  /\ now = Epoch
  /\ lastMail = NaN
  /\ ticks = 0
  /\ applied = NaN
  /\ roads = None

\* the Dashboard's selection and the modal before any building is opened
InitModal ==
  /\ selectedBuilding = 0
  /\ isModalOpen = FALSE
  /\ mLoading = FALSE
  /\ mHeld = 0
  /\ mReqs = [b \in Ids |-> 0]

InitRest == InitSel /\ InitQual /\ InitRetry /\ InitModal

InitMore == InitRest /\ InitWx(DefaultFeed, DefaultForecast)

Init ==
  /\ InitCore /\ InitTraf /\ InitPop /\ InitGhost /\ InitApps /\ InitDash
  /\ InitMore

\* a cleanup that leaves its interval running
KeepInterval(n) == n

\* clearInterval in the cleanup of an effect: none of its n intervals is left
ClearInterval(n) == 0

\* --------------------------------------------------------- mount, fetches
\* A Map instance mounts.  Its effects run in definition order: the mount
\* effect starts the three fetches (Map.tsx only), the traffic and marker
\* effects find empty state, the init effect creates the map when the
\* browser supports it.
MapMounts ==
  /\ mounted' = TRUE
  /\ mountsLeft' = mountsLeft - 1
  /\ fetches' = IF ver = "bld" THEN FetchKinds ELSE {}
  /\ mapCur' = mapOk
  /\ styleLoads' = 0
  /\ UNCHANGED <<ver, mapOk, buildingData, passOn, passRest, reg, onMap,
                 zFetches, zPasses, zReg, pins, prevSnap>>
  /\ UNCHANGED <<trafVars, alertVars, popVars, ghostVars, selVars, qualVars>>

\* the environment mounts a Map
MountMap ==
  /\ ~mounted
  /\ mountsLeft > 0
  /\ MapMounts
  /\ UNCHANGED <<appsVars, dashVars, retryVars, modalVars>>

\* fetchBuildingData resolves in the live instance.  ok: the request succeeded
\* with result.success and result.buildings = S.  setBuildingData(S) re-runs
\* the marker effect, which starts addBuildingMarkers up to its first await.
ResolveBuildings(ok, S) ==
  /\ mounted
  /\ "buildings" \in fetches
  /\ fetches' = fetches \ {"buildings"}
  /\ IF ok
       THEN /\ buildingData' = S
            /\ IF mapCur /\ Len(S) > 0
                 THEN passOn' = TRUE /\ passRest' = S
                 ELSE UNCHANGED <<passOn, passRest>>
       ELSE UNCHANGED <<buildingData, passOn, passRest>>
  /\ UNCHANGED <<ver, mapOk, mounted, mountsLeft, mapCur, styleLoads, reg,
                 onMap, zFetches, zPasses, zReg, pins, prevSnap>>
  /\ UNCHANGED <<trafVars, alertVars, popVars, ghostVars, appsVars, dashVars>>
  /\ UNCHANGED <<selVars, qualVars, retryVars, modalVars>>

\* setLngLat and LngLatBounds.extend convert their argument with
\* LngLat.convert, which throws when a coordinate is not a number
LngLatThrows(id) == id \in badCoords

\* one iteration of the for loop of addBuildingMarkers, from the point where
\* the readings fetch settles: a rejected fetch, setLngLat on coordinates
\* that are not numbers, or addTo on a null map, throws into the catch of
\* the iteration and the registry is not written
PassIteration(live, id, readingsOk, r, m) ==
  IF readingsOk /\ ~LngLatThrows(id) /\ MapRefOf(live)
    THEN LET h == NewMarker(id, m)
         IN [reg |-> RegSet(r, id, h), onMap |-> m \cup {h}, stored |-> {h}]
    ELSE [reg |-> r, onMap |-> m, stored |-> {}]

\* how an iteration reports an entity whose coordinates made setLngLat
\* throw: the catch of the iteration calls console.error
CoordReport(id, readingsOk) ==
  IF readingsOk /\ LngLatThrows(id) THEN {"error"} ELSE {}

\* the block after the loop: with a map, bounds.extend runs over every
\* building of the list, outside any try
FitBoundsThrows(live, S) ==
  MapRefOf(live) /\ \E id \in SeqIds(S) : LngLatThrows(id)

\* the readings fetch of the live pass settles; the pass runs to its next
\* await, or through the block after the loop to its end
PassStep(readingsOk) ==
  /\ mounted
  /\ passOn
  /\ coordReports' = coordReports \cup CoordReport(Head(passRest), readingsOk)
  /\ passFailed' = (passFailed \/
                      (Len(passRest) = 1 /\ FitBoundsThrows(TRUE, buildingData)))
  /\ badCoords' = badCoords
  /\ LET it == PassIteration(TRUE, Head(passRest), readingsOk, reg, onMap)
     IN /\ reg' = it.reg
        /\ onMap' = it.onMap
  /\ passRest' = Tail(passRest)
  /\ passOn' = (Len(passRest) > 1)
  /\ UNCHANGED <<ver, mapOk, mounted, mountsLeft, mapCur, styleLoads,
                 buildingData, fetches, zFetches, zPasses, zReg, pins, prevSnap>>
  /\ UNCHANGED <<trafVars, alertVars, popVars, ghostVars, appsVars, dashVars>>
  /\ UNCHANGED <<selVars, retryVars, modalVars>>

\* ------------------------------------------------------------ style.load
\* pinpoints.forEach of the pinpoint revision: one marker per pinpoint, each
\* stored under its id
RECURSIVE AddPins(_, _, _)
AddPins(s, r, m) ==
  IF s = <<>> THEN [reg |-> r, onMap |-> m]
  ELSE LET h == NewMarker(Head(s), m)
       IN AddPins(Tail(s), RegSet(r, Head(s), h), m \cup {h})

\* a style.load handler without the guard
PinUnguarded(r) == TRUE

\* "only once": the size guard of the pinpoint revision's style.load handler
PinGuard(r) == RegSize(r) = 0

\* 'style.load' fires on the live map of Map.tsx: the handler adds the
\* '3d-buildings' layer and the road layers, starts the 1 s layer check,
\* creates the road and hover popups and registers the map handlers
StyleLoadBld ==
  /\ ver = "bld"
  /\ mounted /\ mapCur
  /\ styleLoads < MaxStyleLoads
  /\ styleLoads' = styleLoads + 1
  /\ timers' = timers \cup {<<"layer", 0>>}
  /\ roads' = IF roads = None
                THEN <<getTrafficColor(InitialNB), getTrafficColor(InitialSB)>>
                ELSE roads
  /\ UNCHANGED <<ver, mapOk, mounted, mountsLeft, mapCur, buildingData,
                 fetches, passOn, passRest, reg, onMap, zFetches, zPasses,
                 zReg, pins, prevSnap>>
  /\ UNCHANGED <<pointer, clickRef, open, closeL, zTimers, lateErrors>>
  /\ UNCHANGED <<feed, forecast, trafficVolumeNB, trafficVolumeSB,
                 currentWeatherIndex, showAlert, lastAlertSent, now,
                 lastMail, ticks, applied>>
  /\ UNCHANGED <<trafVars, ghostVars, appsVars, dashVars>>
  /\ UNCHANGED <<selVars, qualVars, retryVars, modalVars>>

\* 'style.load' fires on the live map of the pinpoint revision: the markers
\* are created when the registry is empty
StyleLoadPin ==
  /\ ver = "pin"
  /\ mounted /\ mapCur
  /\ styleLoads < MaxStyleLoads
  /\ styleLoads' = styleLoads + 1
  /\ prevSnap' = pins
  /\ LET res == IF PinGuard(reg) THEN AddPins(pins, reg, onMap)
                ELSE [reg |-> reg, onMap |-> onMap]
     IN /\ reg' = res.reg
        /\ onMap' = res.onMap
  /\ UNCHANGED <<ver, mapOk, mounted, mountsLeft, mapCur, buildingData,
                 fetches, passOn, passRest, zFetches, zPasses, zReg, pins>>
  /\ UNCHANGED <<trafVars, alertVars, popVars, ghostVars, appsVars, dashVars>>
  /\ UNCHANGED <<selVars, qualVars, retryVars, modalVars>>

\* ---------------------------------------------------------------- unmount
\* a teardown that leaves what is attached to the map in place
MapRemoveSkipped(attached) == attached

\* map.remove(): the map's container is emptied (markers) and every popup
\* attached to the map closes on the map's 'remove' event
MapRemove(attached) == {}

\* The Map instance unmounts.  The init effect registered its cleanup only
\* if it created the map.  The cleanup removes the registry's markers, clears
\* the registry, removes the popups it captured when the effect ran (all
\* null then) and removes the map.  The traffic effect's cleanup clears its
\* interval.  Pending promises and one-shot timers outlive the instance.
MapUnmounts ==
  /\ mounted' = FALSE
  /\ mapCur' = FALSE
  /\ styleLoads' = 0
  /\ reg' = EmptyReg
  /\ onMap' = IF mapCur THEN MapRemove(onMap \ RegMarkers(reg)) ELSE onMap
  /\ open' = IF mapCur THEN MapRemove(open) ELSE open
  /\ buildingData' = <<>>
  /\ prevSnap' = IF buildingData # <<>> THEN buildingData ELSE prevSnap
  /\ fetches' = {}
  /\ zFetches' = zFetches + Cardinality(fetches)
  /\ passOn' = FALSE
  /\ passRest' = <<>>
  /\ zPasses' = IF passOn THEN zPasses \cup {passRest} ELSE zPasses
  /\ zTimers' = zTimers \cup timers
  /\ timers' = {}
  /\ pointer' = None
  /\ clickRef' = None
  /\ closeL' = {}
  /\ trafficData' = 0
  /\ weatherData' = 0
  /\ currentIndex' = 0
  /\ tTimers' = ClearInterval(tTimers)
  /\ atUnmount' = (atUnmount \cap {"weather"}) \cup {p[1] : p \in open} \cup
                  (IF RegMarkers(reg) # {} THEN {"marker"} ELSE {}) \cup
                  (IF tTimers > 0 THEN {"traffic"} ELSE {})
  /\ gone' = {h[1] : h \in RegMarkers(reg)}
  /\ hl' = {}
  /\ trafficVolumeNB' = InitialNB
  /\ trafficVolumeSB' = InitialSB
  /\ currentWeatherIndex' = 0
  /\ showAlert' = FALSE
  /\ lastAlertSent' = 0
  /\ ticks' = 0
  /\ applied' = NaN
  /\ roads' = None
  /\ UNCHANGED <<feed, forecast, now, lastMail>>
  /\ UNCHANGED <<ver, mapOk, mountsLeft, zReg, pins, lateErrors, zRan>>
  /\ UNCHANGED <<leftWhile, activeStudyCase, selTrace, qualVars>>

\* the environment unmounts the Map
Unmount ==
  /\ mounted
  /\ MapUnmounts
  /\ UNCHANGED <<appsVars, dashVars, retryVars, modalVars>>

\* ------------------------------------------- continuations of dead instances
\* a mount fetch of a dead instance settles: its setState is a no-op
ZFetchResolve ==
  /\ zFetches > 0
  /\ zFetches' = zFetches - 1
  /\ UNCHANGED <<ver, mapOk, mounted, mountsLeft, mapCur, styleLoads,
                 buildingData, fetches, passOn, passRest, reg, onMap,
                 zPasses, zReg, pins, prevSnap>>
  /\ UNCHANGED <<trafVars, alertVars, popVars>>
  /\ zRan' = TRUE
  /\ UNCHANGED <<atUnmount, gone, leftWhile, appsVars, dashVars>>
  /\ UNCHANGED <<selVars, qualVars, retryVars, modalVars>>

\* the readings fetch of a dead instance's pass settles: the iteration runs
\* with the map.current its cleanup left (null); after the last iteration
\* the fitBounds block is skipped for the same reason
ZPassStep(rest, readingsOk) ==
  /\ rest \in zPasses
  /\ LET it == PassIteration(FALSE, Head(rest), readingsOk, EmptyReg, onMap)
     IN /\ onMap' = it.onMap
        /\ zReg' = zReg \cup it.stored
  /\ zPasses' = (zPasses \ {rest}) \cup
                  (IF Len(rest) > 1 THEN {Tail(rest)} ELSE {})
  /\ UNCHANGED <<ver, mapOk, mounted, mountsLeft, mapCur, styleLoads,
                 buildingData, fetches, passOn, passRest, reg, zFetches,
                 pins, prevSnap>>
  /\ UNCHANGED <<trafVars, alertVars, popVars>>
  /\ zRan' = TRUE
  /\ UNCHANGED <<atUnmount, gone, leftWhile, appsVars, dashVars>>
  /\ coordReports' = coordReports \cup CoordReport(Head(rest), readingsOk)
  /\ UNCHANGED <<badCoords, passFailed, selVars, retryVars, modalVars>>

\* ------------------------------------------------- traffic cycle (Map.tsx)
\* fetchTrafficData resolves in the live instance; n data points arrive.
\* setTrafficData re-runs the traffic effect, which starts the 3 s interval
\* unless the list is empty.
ResolveTraffic(ok, n) ==
  /\ mounted
  /\ "traffic" \in fetches
  /\ fetches' = fetches \ {"traffic"}
  /\ IF ok
       THEN /\ trafficData' = n
            /\ tTimers' = ClearInterval(tTimers) + (IF n > 0 THEN 1 ELSE 0)
       ELSE UNCHANGED <<trafficData, tTimers>>
  /\ UNCHANGED <<weatherData, currentIndex, alertVars>>
  /\ UNCHANGED <<ver, mapOk, mounted, mountsLeft, mapCur, styleLoads,
                 buildingData, passOn, passRest, reg, onMap, zFetches,
                 zPasses, zReg, pins, prevSnap>>
  /\ UNCHANGED <<popVars, ghostVars, appsVars, dashVars>>
  /\ UNCHANGED <<selVars, qualVars, retryVars, modalVars>>

\* fetchWeatherData of Map.tsx resolves in the live instance with n records;
\* setWeatherData re-runs the weather-alert effect
ResolveWeather(ok, n) ==
  /\ mounted
  /\ "weather" \in fetches
  /\ fetches' = fetches \ {"weather"}
  /\ weatherData' = IF ok THEN n ELSE weatherData
  /\ LET e == WeatherAlertEffect(weatherData', currentWeatherIndex,
                                 trafficVolumeNB, trafficVolumeSB)
     IN /\ showAlert' = e.show
        /\ lastAlertSent' = e.sent
        /\ lastMail' = e.mail
  /\ UNCHANGED <<feed, forecast, trafficVolumeNB, trafficVolumeSB,
                 currentWeatherIndex, now, ticks, applied, roads>>
  /\ UNCHANGED <<trafficData, currentIndex, tTimers>>
  /\ UNCHANGED <<ver, mapOk, mounted, mountsLeft, mapCur, styleLoads,
                 buildingData, passOn, passRest, reg, onMap, zFetches,
                 zPasses, zReg, pins, prevSnap>>
  /\ UNCHANGED <<popVars, ghostVars, appsVars, dashVars>>
  /\ UNCHANGED <<selVars, qualVars, retryVars, modalVars>>

\* the 3 s interval fires: the callback applies the data point at
\* currentIndex (the volumes of both directions) and advances the index
\* cyclically; when the index changed, the effect re-runs (the old interval
\* is cleared, a new one started); when a volume changed, the weather-alert
\* effect and the road colour effect re-run
TrafficTick ==
  /\ mounted
  /\ tTimers > 0
  /\ LET nxt == NextIndex(currentIndex, trafficData)
     IN /\ currentIndex' = nxt
        /\ tTimers' = IF nxt # currentIndex
                        THEN ClearInterval(tTimers) + 1
                        ELSE tTimers
  /\ LET nb == Volume(feed[currentIndex + 1][1])
         sb == Volume(feed[currentIndex + 1][2])
         changed == nb # trafficVolumeNB \/ sb # trafficVolumeSB
         e == WeatherAlertEffect(weatherData, currentWeatherIndex, nb, sb)
     IN /\ trafficVolumeNB' = nb
        /\ trafficVolumeSB' = sb
        /\ showAlert' = (IF changed THEN e.show ELSE showAlert)
        /\ lastAlertSent' = (IF changed THEN e.sent ELSE lastAlertSent)
        /\ lastMail' = (IF changed THEN e.mail ELSE lastMail)
        /\ roads' = (IF changed THEN RoadEffect(nb, sb) ELSE roads)
  /\ applied' = currentIndex
  /\ ticks' = Min(ticks + 1, MaxTicks + 1)
  /\ UNCHANGED <<feed, forecast, currentWeatherIndex, now>>
  /\ UNCHANGED <<trafficData, weatherData>>
  /\ UNCHANGED <<coreVars, popVars, ghostVars, appsVars, dashVars>>
  /\ UNCHANGED <<selVars, qualVars, retryVars, modalVars>>

\* the 'o' key: the index advances cyclically over the list the handler
\* closed over; when it changed, the weather-alert effect re-runs
KeyPress ==
  /\ mounted
  /\ currentWeatherIndex' = NextWeatherIndex(currentWeatherIndex, weatherData)
  /\ LET changed == currentWeatherIndex' # currentWeatherIndex
         e == WeatherAlertEffect(weatherData, currentWeatherIndex',
                                 trafficVolumeNB, trafficVolumeSB)
     IN /\ showAlert' = (IF changed THEN e.show ELSE showAlert)
        /\ lastAlertSent' = (IF changed THEN e.sent ELSE lastAlertSent)
        /\ lastMail' = (IF changed THEN e.mail ELSE lastMail)
  /\ UNCHANGED <<feed, forecast, trafficVolumeNB, trafficVolumeSB, now,
                 ticks, applied, roads>>
  /\ UNCHANGED <<coreVars, trafVars, popVars, ghostVars, appsVars, dashVars>>
  /\ UNCHANGED <<selVars, qualVars, retryVars, modalVars>>

\* the weather-alert effect throws (currentWeather is undefined): no error
\* boundary catches it and React unmounts the tree
EffectThrows ==
  /\ EffectPending
  /\ MapUnmounts
  /\ UNCHANGED <<appsVars, dashVars, retryVars, modalVars>>

\* time passes
Advance ==
  /\ now < Epoch + MaxClock * ClockStep
  /\ now' = now + ClockStep
  /\ UNCHANGED <<feed, forecast, trafficVolumeNB, trafficVolumeSB,
                 currentWeatherIndex, showAlert, lastAlertSent, lastMail,
                 ticks, applied, roads>>
  /\ UNCHANGED <<coreVars, trafVars, popVars, ghostVars, appsVars, dashVars>>
  /\ UNCHANGED <<selVars, qualVars, retryVars, modalVars>>

\* --------------------------------------------------- one-shot timers
\* the 1 s layer check of the live instance fires: it reads the layer and logs
LayerTimerFire(t) ==
  /\ t \in timers
  /\ t[1] = "layer"
  /\ timers' = timers \ {t}
  /\ UNCHANGED <<pointer, clickRef, open, closeL, zTimers, lateErrors>>
  /\ UNCHANGED <<coreVars, trafVars, alertVars, ghostVars, appsVars, dashVars>>
  /\ UNCHANGED <<selVars, qualVars, retryVars, modalVars>>

\* what a one-shot timer callback of a dead instance does:
\*   "layer": map.current!.getLayer(...) on null throws;
\*   "hover": hoverPopup.addTo(map.current!) on null throws;
\*   "bind":  getElementById finds no button of the dead map and returns
TimerThrows(t, live) ==
  /\ t[1] \in {"layer", "hover"}
  /\ ~MapRefOf(live)

ZTimerFire(t) ==
  /\ t \in zTimers
  /\ zTimers' = zTimers \ {t}
  /\ lateErrors' = (lateErrors \/ TimerThrows(t, FALSE))
  /\ UNCHANGED <<pointer, clickRef, open, closeL, timers>>
  /\ UNCHANGED <<coreVars, trafVars, alertVars, ghostVars, appsVars, dashVars>>
  /\ UNCHANGED <<selVars, qualVars, retryVars, modalVars>>

\* ------------------------------------------------------------- popups
\* Popup objects: per marker h the hover popup <<"hp", h>> and (Map.tsx) the
\* click popup <<"cp", h>>; the building popups <<"bp", n>> created by the
\* map click handlers; the building hover popup <<"hb", s>> and the road
\* popup <<"rp", s>> created by the s-th style.load.
\* A popup state ps is [open |-> popups on the map, ref |-> clickPopup.current].
HasButton(p) == p[1] \in {"cp", "bp"}

\* popup.remove() for every popup of X; the 'close' listener of a marker
\* popup resets clickPopup.current when it still points at that popup
CloseAll(ps, X) ==
  [open |-> ps.open \ X,
   ref |-> IF ps.ref \in X /\ ps.ref[1] = "cp" /\ ps.ref[2] \in closeL
             THEN None ELSE ps.ref]

\* a handler that leaves the popup of the ref open
RemoveRefSkipped(ps) == ps

\* if (clickPopup.current) clickPopup.current.remove()
RemoveRef(ps) == IF ps.ref # None THEN CloseAll(ps, {ps.ref}) ELSE ps

\* the loop over '.mapboxgl-popup' clicking every close button
ClickCloseButtons(ps) == CloseAll(ps, {p \in ps.open : HasButton(p)})

\* new mapboxgl.Popup(...) in a click handler: a fresh object
NewBP(ps) ==
  <<"bp", CHOOSE n \in 0..(Cardinality(ps.open) + 1) :
            /\ <<"bp", n>> \notin (ps.open \cup {ps.ref})
            /\ \A j \in 0..(n - 1) : <<"bp", j>> \in (ps.open \cup {ps.ref})>>

\* the click listener of a marker of Map.tsx (addTo of a popup that is
\* already on the map removes it first)
MarkerClickPs(ps, h) ==
  LET a == RemoveRef(ps)
      b == ClickCloseButtons(a)
      c == CloseAll(b, {<<"cp", h>>})
  IN [open |-> c.open \cup {<<"cp", h>>}, ref |-> <<"cp", h>>]

\* the branch of the map click handlers for a click on a building
BuildingBranch(ps) ==
  LET a == RemoveRef(ps)
      p == NewBP(a)
  IN [open |-> a.open \cup {p}, ref |-> p]

\* first map click handler of Map.tsx
Handler1(ps, onB) ==
  IF onB THEN BuildingBranch(ps)
  ELSE ClickCloseButtons([RemoveRef(ps) EXCEPT !.ref = None])

\* second map click handler of Map.tsx: its closing branch is unreachable
Handler2(ps, onB) == IF onB THEN BuildingBranch(ps) ELSE ps

\* click handlers of the pinpoint revision: the '3d-buildings' layer handler,
\* then the generic one
HandlerPin(ps, onB) == IF onB THEN BuildingBranch(ps) ELSE RemoveRef(ps)

\* every style.load registered the handlers once more; they run in order
RECURSIVE RunHandlers(_, _, _)
RunHandlers(ps, onB, n) ==
  IF n = 0 THEN ps
  ELSE RunHandlers(IF ver = "bld" THEN Handler2(Handler1(ps, onB), onB)
                   ELSE HandlerPin(ps, onB), onB, n - 1)

\* a click reaches the map: the popups with closeOnClick that were open
\* close, before (pre) or after the handlers of the component
MapClickPs(ps, onB, pre) ==
  LET old == {p \in ps.open : HasButton(p)}
  IN IF pre THEN RunHandlers(CloseAll(ps, old), onB, styleLoads)
     ELSE LET r == RunHandlers(ps, onB, styleLoads)
          IN CloseAll(r, old \cap r.open)

\* the popups with a close button that are on the map
ClickPopupsOpen == {p \in open : HasButton(p)}

\* ------------------------------------------------------- pointer events
\* the pointer enters a marker: Map.tsx starts the 500 ms hover timer, the
\* pinpoint revision opens the marker's popup at once
MarkerEnter(h) ==
  /\ mounted /\ h \in onMap
  /\ pointer = None
  /\ pointer' = <<"m", h>>
  /\ IF ver = "bld"
       THEN timers' = timers \cup {<<"hover", h>>} /\ open' = open
       ELSE open' = open \cup {<<"hp", h>>} /\ timers' = timers
  /\ UNCHANGED <<clickRef, closeL, zTimers, lateErrors>>
  /\ UNCHANGED <<coreVars, trafVars, alertVars, ghostVars, appsVars, dashVars>>
  /\ UNCHANGED <<selVars, qualVars, retryVars, modalVars>>

\* the hover timer of the live instance fires: the popup is added to the map
HoverTimerFire(t) ==
  /\ t \in timers
  /\ t[1] = "hover"
  /\ timers' = timers \ {t}
  /\ open' = open \cup {<<"hp", t[2]>>}
  /\ UNCHANGED <<pointer, clickRef, closeL, zTimers, lateErrors>>
  /\ UNCHANGED <<coreVars, trafVars, alertVars, ghostVars, appsVars, dashVars>>
  /\ UNCHANGED <<selVars, qualVars, retryVars, modalVars>>

\* a mouseleave listener that only cancels the timer
HoverRemoveSkipped(o, h) == o

\* hoverPopup.remove() in the mouseleave listener of marker h
HoverRemove(o, h) == o \ {<<"hp", h>>}

\* the pointer leaves the marker: clearTimeout and hoverPopup.remove()
MarkerLeave(h) ==
  /\ mounted
  /\ pointer = <<"m", h>>
  /\ pointer' = None
  /\ timers' = timers \ {<<"hover", h>>}
  /\ open' = HoverRemove(open, h)
  /\ UNCHANGED <<clickRef, closeL, zTimers, lateErrors>>
  /\ leftWhile' = (leftWhile \/
                     (<<"hp", h>> \in open /\ ClickPopupsOpen # {}))
  /\ UNCHANGED <<zRan, atUnmount, gone>>
  /\ UNCHANGED <<coreVars, trafVars, alertVars, appsVars, dashVars>>
  /\ UNCHANGED <<selVars, qualVars, retryVars, modalVars>>

\* a marker of Map.tsx is clicked (the event does not reach the map)
MarkerClick(h) ==
  /\ ver = "bld"
  /\ mounted /\ h \in onMap
  /\ LET r == MarkerClickPs([open |-> open, ref |-> clickRef], h)
     IN open' = r.open /\ clickRef' = r.ref
  /\ timers' = timers \cup {<<"bind", h>>}
  /\ closeL' = closeL \cup {h}
  /\ UNCHANGED <<pointer, zTimers, lateErrors>>
  /\ UNCHANGED <<coreVars, trafVars, alertVars, ghostVars, appsVars, dashVars>>
  /\ UNCHANGED <<selVars, qualVars, retryVars, modalVars>>

\* the 100 ms timer of the live instance fires: it binds the details button,
\* whose click closes the popup like the popup's own close button
BindTimerFire(t) ==
  /\ t \in timers
  /\ t[1] = "bind"
  /\ timers' = timers \ {t}
  /\ UNCHANGED <<pointer, clickRef, open, closeL, zTimers, lateErrors>>
  /\ UNCHANGED <<coreVars, trafVars, alertVars, ghostVars, appsVars, dashVars>>
  /\ UNCHANGED <<selVars, qualVars, retryVars, modalVars>>

\* the user closes a popup with its close button
CloseButton(p) ==
  /\ mounted
  /\ p \in open /\ HasButton(p)
  /\ LET r == CloseAll([open |-> open, ref |-> clickRef], {p})
     IN open' = r.open /\ clickRef' = r.ref
  /\ UNCHANGED <<pointer, closeL, timers, zTimers, lateErrors>>
  /\ UNCHANGED <<coreVars, trafVars, alertVars, ghostVars, appsVars, dashVars>>
  /\ UNCHANGED <<selVars, qualVars, retryVars, modalVars>>

\* a click reaches the map, on a building of the '3d-buildings' layer or not
MapClick(onB, pre) ==
  /\ mounted /\ mapCur
  /\ onB => styleLoads > 0
  /\ LET r == MapClickPs([open |-> open, ref |-> clickRef], onB, pre)
     IN open' = r.open /\ clickRef' = r.ref
  /\ UNCHANGED <<pointer, closeL, timers, zTimers, lateErrors>>
  /\ UNCHANGED <<coreVars, trafVars, alertVars, ghostVars, appsVars, dashVars>>
  /\ UNCHANGED <<selVars, qualVars, retryVars, modalVars>>

\* the pointer moves onto a building ("hb") or, in Map.tsx, onto a road
\* ("rp"): the popup the latest style.load stored in the ref is shown
AreaEnter(k) ==
  /\ mounted /\ mapCur /\ styleLoads > 0
  /\ k = "rp" => ver = "bld"
  /\ pointer = None
  /\ pointer' = <<k>>
  /\ open' = open \cup {<<k, styleLoads>>}
  /\ UNCHANGED <<clickRef, closeL, timers, zTimers, lateErrors>>
  /\ UNCHANGED <<coreVars, trafVars, alertVars, ghostVars, appsVars, dashVars>>
  /\ UNCHANGED <<selVars, qualVars, retryVars, modalVars>>

\* the pointer leaves the building or the road: the ref's popup is removed
AreaLeave(k) ==
  /\ mounted
  /\ pointer = <<k>>
  /\ pointer' = None
  /\ open' = open \ {<<k, styleLoads>>}
  /\ UNCHANGED <<clickRef, closeL, timers, zTimers, lateErrors>>
  /\ UNCHANGED <<coreVars, trafVars, alertVars, ghostVars, appsVars, dashVars>>
  /\ UNCHANGED <<selVars, qualVars, retryVars, modalVars>>

NextPointer ==
  \/ \E h \in onMap : MarkerEnter(h) \/ MarkerLeave(h) \/ MarkerClick(h)
  \/ \E t \in timers : HoverTimerFire(t) \/ BindTimerFire(t)
  \/ \E p \in open : CloseButton(p)
  \/ \E onB \in BOOLEAN : \E pre \in BOOLEAN : MapClick(onB, pre)
  \/ \E k \in {"hb", "rp"} : AreaEnter(k) \/ AreaLeave(k)

\* ------------------------------------------- the selection (study case)
\* the type of a pinpoint: the store lists a traffic, a weather and an energy
\* pinpoint, in this order
CaseOrder == <<"traffic", "weather", "energy">>

CaseOf(id) == CaseOrder[((id - 1) % 3) + 1]

\* a click handler that selects without looking at the current selection
ToggleSet(cur, c) == c

\* handleClick: setState(current === pinpoint.type ? null : pinpoint.type)
Toggle(cur, c) == IF cur = c THEN "none" ELSE c

\* an effect that styles the active markers and leaves the others as they are
HighlightAdds(old, act, r) ==
  old \cup {r[id] : id \in {i \in SeqIds(pins) : r[i] # None /\ CaseOf(i) = act}}

\* the style effect (deps [activeStudyCase, pinpoints]): every pinpoint with
\* a registry entry is scaled up when its type is the active case and reset
\* otherwise
Highlight(old, act, r) ==
  LET known == {i \in SeqIds(pins) : r[i] # None}
  IN (old \ {r[i] : i \in known}) \cup
       {r[i] : i \in {j \in known : CaseOf(j) = act}}

\* the latest two selections
Latest2(tr, e) == IF Len(tr) < 2 THEN Append(tr, e) ELSE <<tr[2], e>>

\* a pinpoint marker is clicked: the click does not reach the map; the store
\* changes and the style effect of the Map re-runs (it returns at once
\* without a map)
SelectPin(h) ==
  /\ ver = "pin"
  /\ mounted /\ h \in onMap
  /\ LET c == CaseOf(h[1])
         act == Toggle(activeStudyCase, c)
     IN /\ activeStudyCase' = act
        /\ hl' = IF mapCur THEN Highlight(hl, act, reg) ELSE hl
        /\ selTrace' = Latest2(selTrace, <<c, activeStudyCase>>)
  /\ UNCHANGED <<coreVars, trafVars, alertVars, popVars, ghostVars, appsVars, dashVars>>
  /\ UNCHANGED <<qualVars, retryVars, modalVars>>

\* ---------------------------------------- the weather page (Apps)
\* a call that sends the request twice
StartWeatherFetchTwice ==
  /\ wLoading' = TRUE
  /\ wError' = FALSE
  /\ wStage' = <<wStage[1] + 2, wStage[2]>>
  /\ wIssued' = wIssued + 2

\* fetchWeatherData up to its first await: setLoading(true), setError(null),
\* the first fetch is sent
StartWeatherFetch ==
  /\ wLoading' = TRUE
  /\ wError' = FALSE
  /\ wStage' = <<wStage[1] + 1, wStage[2]>>
  /\ wIssued' = wIssued + 1

\* the weather page mounts: its effect fetches once and starts the 5 min
\* interval
AppsMount ==
  /\ ~appsMounted
  /\ appsLeft > 0
  /\ appsMounted' = TRUE
  /\ appsLeft' = appsLeft - 1
  /\ StartWeatherFetch
  /\ wTimer' = 1
  /\ UNCHANGED <<wData, zW, lastArrived, wTicks, wRetries>>
  /\ UNCHANGED <<coreVars, trafVars, alertVars, popVars, ghostVars, dashVars>>
  /\ UNCHANGED <<selVars, qualVars, retryVars, modalVars>>

\* the 5 min interval fires: fetchWeatherData is called again, whether or not
\* an earlier call is still in flight
WeatherTick ==
  /\ appsMounted
  /\ wTimer > 0
  /\ wIssued < MaxWeatherReqs
  /\ StartWeatherFetch
  /\ wTicks' = wTicks + 1
  /\ UNCHANGED <<appsMounted, appsLeft, wTimer, wData, zW, lastArrived,
                 wRetries>>
  /\ UNCHANGED <<coreVars, trafVars, alertVars, popVars, ghostVars, dashVars>>
  /\ UNCHANGED <<selVars, qualVars, retryVars, modalVars>>

\* "Try Again" on the error card (rendered when not loading and error is set)
TryAgain ==
  /\ appsMounted
  /\ ~wLoading /\ wError
  /\ wIssued < MaxWeatherReqs
  /\ StartWeatherFetch
  /\ wRetries' = wRetries + 1
  /\ UNCHANGED <<appsMounted, appsLeft, wTimer, wData, zW, lastArrived,
                 wTicks>>
  /\ UNCHANGED <<coreVars, trafVars, alertVars, popVars, ghostVars, dashVars>>
  /\ UNCHANGED <<selVars, qualVars, retryVars, modalVars>>

\* the first fetch of a request settles: on failure the catch sets the error
\* and the finally clears loading; on success the second fetch is sent
WeatherResolve1(ok) ==
  /\ appsMounted
  /\ wStage[1] > 0
  /\ IF ok
       THEN /\ wStage' = <<wStage[1] - 1, wStage[2] + 1>>
            /\ UNCHANGED <<wLoading, wError, lastArrived>>
       ELSE /\ wStage' = <<wStage[1] - 1, wStage[2]>>
            /\ wError' = TRUE
            /\ wLoading' = FALSE
            /\ lastArrived' = <<FALSE, 0>>
  /\ UNCHANGED <<appsMounted, appsLeft, wTimer, wIssued, wData, zW, wTicks,
                 wRetries>>
  /\ UNCHANGED <<coreVars, trafVars, alertVars, popVars, ghostVars, dashVars>>
  /\ UNCHANGED <<selVars, qualVars, retryVars, modalVars>>

\* the second fetch of a request settles: on success the data (version v) is
\* stored, the error is left as it is, and the finally clears loading
WeatherResolve2(ok, v) ==
  /\ appsMounted
  /\ wStage[2] > 0
  /\ wStage' = <<wStage[1], wStage[2] - 1>>
  /\ wLoading' = FALSE
  /\ IF ok
       THEN wData' = v /\ wError' = wError /\ lastArrived' = <<TRUE, v>>
       ELSE wData' = wData /\ wError' = TRUE /\ lastArrived' = <<FALSE, 0>>
  /\ UNCHANGED <<appsMounted, appsLeft, wTimer, wIssued, zW, wTicks,
                 wRetries>>
  /\ UNCHANGED <<coreVars, trafVars, alertVars, popVars, ghostVars, dashVars>>
  /\ UNCHANGED <<selVars, qualVars, retryVars, modalVars>>

\* the weather page unmounts: the cleanup clears the interval; the requests
\* in flight outlive the instance; the next instance starts from fresh state
AppsUnmount ==
  /\ appsMounted
  /\ appsMounted' = FALSE
  /\ wTimer' = ClearInterval(wTimer)
  /\ zW' = zW + wStage[1] + wStage[2]
  /\ wStage' = <<0, 0>>
  /\ wIssued' = 0
  /\ wLoading' = TRUE
  /\ wError' = FALSE
  /\ wData' = 0
  /\ lastArrived' = None
  /\ atUnmount' = atUnmount \cup (IF wTimer > 0 THEN {"weather"} ELSE {})
  /\ wTicks' = 0
  /\ wRetries' = 0
  /\ UNCHANGED <<appsLeft, zRan, gone, leftWhile>>
  /\ UNCHANGED <<coreVars, trafVars, alertVars, popVars, dashVars>>
  /\ UNCHANGED <<selVars, qualVars, retryVars, modalVars>>

\* a request of an unmounted weather page settles: its setState calls are
\* no-ops
ZWeatherResolve ==
  /\ zW > 0
  /\ zW' = zW - 1
  /\ UNCHANGED <<appsMounted, appsLeft, wTimer, wStage, wIssued, wLoading,
                 wError, wData, lastArrived, wTicks, wRetries>>
  /\ UNCHANGED <<coreVars, trafVars, alertVars, popVars, ghostVars, dashVars>>
  /\ UNCHANGED <<selVars, qualVars, retryVars, modalVars>>

NextApps ==
  \/ AppsMount
  \/ WeatherTick
  \/ TryAgain
  \/ \E ok \in BOOLEAN : WeatherResolve1(ok)
  \/ \E ok \in BOOLEAN : \E v \in 1..MaxVersion : WeatherResolve2(ok, v)
  \/ AppsUnmount
  \/ ZWeatherResolve

\* ------------------------------------------- the store and the Dashboard
\* one fetchX of the store is called: a request for k is in flight
Issue(r, k) == [r EXCEPT ![k] = @ + 1]

\* initializeDashboard: the four fetches are started in parallel
IssueAll(r) == [k \in StoreKinds |-> r[k] + 1]

\* the mount effects of StatsCards (fetchStats when stats is null) and of
\* AnalysisPanel (fetchInsights when the list is empty)
ChildFetches(r) ==
  LET a == IF sData["stats"] = 0 THEN Issue(r, "stats") ELSE r
  IN IF sData["insights"] = 0 THEN Issue(a, "insights") ELSE a

\* no resource has more than MaxInFlight requests in flight
Bounded(r) == \A k \in StoreKinds : r[k] <= MaxInFlight

\* what the error branch of the Dashboard renders instead of its children
ErrorBranch(err) == err

\* what AnalysisPanel shows: nothing while the Dashboard renders its error
\* card, a spinner while loading, the empty-state text for an empty list,
\* else the insights of the store
PanelShows ==
  IF ~dashMounted \/ ErrorBranch(sError) THEN "nothing"
  ELSE IF sLoading THEN "spinner"
  ELSE IF sData["insights"] = 0 THEN "empty"
  ELSE "insights"

\* a fetchX whose catch throws the error on
Rethrown(ok) == IF ok THEN "resolved" ELSE "rejected"

\* the promise of fetchX: try and catch both run to the end of the function
ActionPromise(ok) == "resolved"

\* a catch that also resets the resource
DataDropped(d, k) == [d EXCEPT ![k] = 0]

\* the data after the catch of fetchX for resource k: set() merges, the
\* catch names error and loading only
DataAfterCatch(d, k) == d

\* ------------------------------------------------- BuildingDetailModal
\* what the modal holds after the fetch for building b settled: a success
\* stores the readings and insights of b, a failure leaves the lists
HeldAfter(held, b, ok) == IF ok THEN b ELSE held

\* the effect of the modal (deps building, open): fetchBuildingData when a
\* building is selected and the dialog is open
ModalEffect(b, isOpen, loading, reqs) ==
  IF b # 0 /\ isOpen
    THEN [loading |-> TRUE, reqs |-> [reqs EXCEPT ![b] = @ + 1]]
    ELSE [loading |-> loading, reqs |-> reqs]

\* the Dashboard renders its error card: the modal unmounts, its state is
\* lost and its requests settle in a dead instance
ModalUnmounts ==
  /\ mLoading' = FALSE
  /\ mHeld' = 0
  /\ mReqs' = [b \in Ids |-> 0]
  /\ UNCHANGED <<selectedBuilding, isModalOpen>>

\* the Dashboard renders its children again: a fresh modal mounts with the
\* building and open the Dashboard kept, and runs its effect
ModalMounts ==
  /\ LET e == ModalEffect(selectedBuilding, isModalOpen, FALSE,
                          [b \in Ids |-> 0])
     IN /\ mLoading' = e.loading
        /\ mReqs' = e.reqs
  /\ mHeld' = 0
  /\ UNCHANGED <<selectedBuilding, isModalOpen>>

\* a click on the card of building b (the list of the Buildings tab, shown
\* with buildings loaded; an open dialog covers it): handleBuildingClick,
\* then the effect of the modal
BuildingClick(b) ==
  /\ dashMounted
  /\ ~ErrorBranch(sError)
  /\ sData["buildings"] > 0
  /\ ~isModalOpen
  /\ selectedBuilding' = b
  /\ isModalOpen' = TRUE
  /\ LET e == ModalEffect(b, TRUE, mLoading, mReqs)
     IN /\ mLoading' = e.loading
        /\ mReqs' = e.reqs
  /\ mReqs'[b] <= MaxInFlight
  /\ UNCHANGED mHeld
  /\ UNCHANGED <<coreVars, trafVars, alertVars, popVars, ghostVars, appsVars,
                 dashVars>>
  /\ UNCHANGED <<selVars, qualVars, retryVars>>

\* the dialog is closed: onOpenChange(false); the effect runs and fetches
\* nothing
CloseModal ==
  /\ dashMounted
  /\ ~ErrorBranch(sError)
  /\ isModalOpen
  /\ isModalOpen' = FALSE
  /\ UNCHANGED <<selectedBuilding, mLoading, mHeld, mReqs>>
  /\ UNCHANGED <<coreVars, trafVars, alertVars, popVars, ghostVars, appsVars,
                 dashVars>>
  /\ UNCHANGED <<selVars, qualVars, retryVars>>

\* the Promise.all of a fetchBuildingData call for building b settles in
\* the live modal.  ok: both requests succeeded
ModalResolve(b, ok) ==
  /\ dashMounted
  /\ mReqs[b] > 0
  /\ mReqs' = [mReqs EXCEPT ![b] = @ - 1]
  /\ mHeld' = HeldAfter(mHeld, b, ok)
  /\ mLoading' = FALSE
  /\ UNCHANGED <<selectedBuilding, isModalOpen>>
  /\ UNCHANGED <<coreVars, trafVars, alertVars, popVars, ghostVars, appsVars,
                 dashVars>>
  /\ UNCHANGED <<selVars, qualVars, retryVars>>

\* ------------------------------------------------------------ Dashboard
\* the Dashboard mounts: its children mount (StatsCards, Map, AnalysisPanel)
\* and run their effects, then its own effect calls initializeDashboard
DashMount ==
  /\ ~dashMounted
  /\ dashMounted' = TRUE
  /\ mountsLeft > 0
  /\ MapMounts
  /\ sReqs' = IssueAll(ChildFetches(sReqs))
  /\ Bounded(sReqs')
  /\ sLoading' = TRUE
  /\ sError' = FALSE
  /\ UNCHANGED <<sData, sLast, sGen, polls, appsVars, retryVars, modalVars>>

\* a store fetch for k settles.  Success stores the data and clears loading;
\* the error is left as it is.  Failure sets the error and clears loading;
\* the Dashboard then renders its error branch and its children unmount.
\* An empty insights list re-runs the effect of AnalysisPanel, which fetches
\* again.
StoreResolve(k, ok, v) ==
  /\ dashMounted
  /\ sReqs[k] > 0
  /\ sLast' = <<k, ok, ActionPromise(ok)>>
  /\ \E mine \in BOOLEAN :
       /\ mine => k \in rPend
       /\ ~mine => sReqs[k] > (IF k \in rPend THEN 1 ELSE 0)
       /\ rPend' = (IF mine THEN rPend \ {k} ELSE rPend)
       /\ rDone' = (IF ~mine THEN rDone
                    ELSE IF ~ok THEN "failed"
                    ELSE IF rDone = "pending" /\ rPend = {k} THEN "ok"
                    ELSE rDone)
  /\ LET done == [sReqs EXCEPT ![k] = @ - 1]
     IN IF ok
          THEN /\ sData' = [sData EXCEPT ![k] = v]
               /\ sError' = sError
               /\ IF k = "insights" /\ v = 0 /\ ~ErrorBranch(sError)
                    THEN /\ sReqs' = Issue(done, k)
                         /\ sLoading' = TRUE
                         /\ polls' = (polls + 1) % 2
                    ELSE /\ sReqs' = done
                         /\ sLoading' = FALSE
                         /\ polls' = polls
               /\ UNCHANGED <<coreVars, trafVars, alertVars, popVars, ghostVars>>
               /\ UNCHANGED <<selVars, qualVars, modalVars>>
          ELSE /\ sData' = DataAfterCatch(sData, k)
               /\ sError' = TRUE
               /\ sReqs' = done
               /\ sLoading' = FALSE
               /\ polls' = polls
               /\ ModalUnmounts
               /\ IF mounted /\ ErrorBranch(sError')
                    THEN MapUnmounts
                    ELSE UNCHANGED <<coreVars, trafVars, alertVars, popVars, ghostVars,
                                     selVars, qualVars>>
  /\ UNCHANGED <<dashMounted, sGen, appsVars>>

\* "Retry" on the error card: initializeDashboard clears the error, the
\* Dashboard renders its children again and they mount
Retry ==
  /\ dashMounted
  /\ sError
  /\ sError' = FALSE
  /\ sLoading' = TRUE
  /\ ~mounted /\ mountsLeft > 0
  /\ MapMounts
  /\ sReqs' = IssueAll(ChildFetches(sReqs))
  /\ Bounded(sReqs')
  /\ rPend' = StoreKinds
  /\ rDone' = "pending"
  /\ ModalMounts
  /\ UNCHANGED <<dashMounted, sData, sLast, sGen, polls, appsVars>>

\* "Refresh" in the header (shown with buildings loaded, disabled while
\* loading): initializeDashboard
Refresh ==
  /\ dashMounted
  /\ ~sError
  /\ sData["buildings"] > 0
  /\ ~sLoading
  /\ sLoading' = TRUE
  /\ sError' = FALSE
  /\ sReqs' = IssueAll(sReqs)
  /\ Bounded(sReqs')
  /\ UNCHANGED <<dashMounted, sData, sLast, sGen, polls, appsVars>>
  /\ UNCHANGED <<coreVars, trafVars, alertVars, popVars, ghostVars>>
  /\ UNCHANGED <<selVars, qualVars, retryVars, modalVars>>

\* "Generate Sample Data" in the header (shown without buildings while not
\* loading, disabled while an earlier generateAllData runs; pressed here
\* with no request in flight): generateAllData up to its first await
Generate ==
  /\ dashMounted
  /\ ~ErrorBranch(sError)
  /\ sData["buildings"] = 0
  /\ ~sLoading
  /\ sGen = 0
  /\ \A k \in StoreKinds : sReqs[k] = 0
  /\ sGen' = 1
  /\ sLoading' = TRUE
  /\ sError' = FALSE
  /\ UNCHANGED <<dashMounted, sData, sReqs, sLast, polls, appsVars>>
  /\ UNCHANGED <<coreVars, trafVars, alertVars, popVars, ghostVars>>
  /\ UNCHANGED <<selVars, qualVars, retryVars, modalVars>>

\* a generateAllData that refreshes whatever generateFast answered
RefreshAnyway(r, ok) == IssueAll(r)

\* the store requests after generateFast settled: the await throws on a
\* failure, and initializeDashboard (the four fetches) is not reached
AfterGenerate(r, ok) == IF ok THEN IssueAll(r) ELSE r

\* generateFast settles: on success generateAllData calls
\* initializeDashboard; on failure its catch sets the error and clears
\* loading, and the Dashboard renders its error card
GenerateResolve(ok) ==
  /\ dashMounted
  /\ sGen = 1
  /\ sGen' = 0
  /\ sLast' = <<"generate", ok, "resolved">>
  /\ sReqs' = AfterGenerate(sReqs, ok)
  /\ IF ok
       THEN /\ sLoading' = TRUE
            /\ sError' = FALSE
            /\ Bounded(sReqs')
            /\ UNCHANGED <<coreVars, trafVars, alertVars, popVars, ghostVars,
                           selVars, qualVars, modalVars>>
       ELSE /\ sLoading' = FALSE
            /\ sError' = TRUE
            /\ ModalUnmounts
            /\ IF mounted /\ ErrorBranch(sError')
                 THEN MapUnmounts
                 ELSE UNCHANGED <<coreVars, trafVars, alertVars, popVars, ghostVars,
                                  selVars, qualVars>>
  /\ UNCHANGED <<dashMounted, sData, polls, appsVars, retryVars>>

\* ------------------------------------------------------ the lifecycle core
\* The Map and its markers over mounts, fetches, passes, style loads and
\* unmounts; the traffic and weather endpoints do not answer while the
\* instance lives (SpecTimers covers their answers).
NextCore ==
  \/ MountMap
  \/ \E ok \in BOOLEAN : \E S \in Snapshots : ResolveBuildings(ok, S)
  \/ \E ok \in BOOLEAN : PassStep(ok)
  \/ StyleLoadBld
  \/ StyleLoadPin
  \/ Unmount
  \/ ZFetchResolve
  \/ \E rest \in zPasses : \E ok \in BOOLEAN : ZPassStep(rest, ok)
  \/ \E t \in timers : LayerTimerFire(t)
  \/ \E t \in zTimers : ZTimerFire(t)

Spec == Init /\ [][NextCore]_vars

\* the periodic timers: the weather page, and Map.tsx with a buildings
\* endpoint that has nothing to show
NextTimers ==
  \/ AppsMount
  \/ WeatherTick
  \/ TryAgain
  \/ \E ok \in BOOLEAN : WeatherResolve1(ok)
  \/ \E ok \in BOOLEAN : WeatherResolve2(ok, 1)
  \/ AppsUnmount
  \/ ZWeatherResolve
  \/ MountMap
  \/ \E ok \in BOOLEAN : ResolveBuildings(ok, <<>>)
  \/ StyleLoadBld
  \/ Unmount
  \/ ZFetchResolve
  \/ \E ok \in BOOLEAN : \E n \in 0..MaxTraffic : ResolveTraffic(ok, n)
  \/ \E ok \in BOOLEAN : ResolveWeather(ok, 0)
  \/ TrafficTick
  \/ \E t \in timers : LayerTimerFire(t)
  \/ \E t \in zTimers : ZTimerFire(t)

InitTimers ==
  /\ InitMounts(1) /\ ver = "bld" /\ mapOk
  /\ InitTraf /\ InitPop /\ InitGhost /\ InitAppsMounts(1) /\ InitDash
  /\ InitMore

SpecTimers == InitTimers /\ [][NextTimers]_vars

\* the Dashboard with the store and Map.tsx as its child, on a network where
\* the Map gets an answer from its buildings endpoint only (at most one
\* building) and the map style does not load; every list the store loads
\* has entries (SpecPanel covers the empty insights list)
NextDash ==
  \/ DashMount
  \/ \E k \in StoreKinds : \E ok \in BOOLEAN : StoreResolve(k, ok, 1)
  \/ Retry
  \/ Refresh
  \/ \E ok \in BOOLEAN : \E S \in {<<>>, <<1>>} :
       ResolveBuildings(ok, S)
  \/ \E ok \in BOOLEAN : PassStep(ok)
  \/ ZFetchResolve
  \/ \E rest \in zPasses : \E ok \in BOOLEAN : ZPassStep(rest, ok)

InitDashboard == Init /\ ver = "bld" /\ mapOk

SpecDash == InitDashboard /\ [][NextDash]_vars

\* Map.tsx on a backend whose building records may lack numeric coordinates
\* and whose readings endpoint answers every request
NextCoords ==
  \/ MountMap
  \/ \E ok \in BOOLEAN : \E S \in Snapshots : ResolveBuildings(ok, S)
  \/ PassStep(TRUE)
  \/ StyleLoadBld
  \/ Unmount
  \/ ZFetchResolve
  \/ \E rest \in zPasses : ZPassStep(rest, TRUE)
  \/ \E t \in timers : LayerTimerFire(t)
  \/ \E t \in zTimers : ZTimerFire(t)

InitCoords ==
  /\ InitMounts(MaxMounts) /\ ver = "bld" /\ mapOk
  /\ InitTraf /\ InitPop /\ InitGhost /\ InitApps /\ InitDash
  /\ InitSel /\ InitRetry /\ InitModal
  /\ InitWx(DefaultFeed, DefaultForecast)
  /\ badCoords \in SUBSET Ids
  /\ coordReports = {}
  /\ passFailed = FALSE

SpecCoords == InitCoords /\ [][NextCoords]_vars

\* the pinpoint revision with a user who selects study cases on its markers
NextSel ==
  \/ MountMap
  \/ StyleLoadPin
  \/ Unmount
  \/ \E h \in onMap : SelectPin(h)

InitSelection == Init /\ ver = "pin" /\ mapOk

SpecSel == InitSelection /\ [][NextSel]_vars

\* the store and the Dashboard with the pinpoint revision of the Map as the
\* child (the store of the Dashboard revision lists no pinpoints); the
\* buildings endpoint may answer with an empty list (SpecPanel covers the
\* empty insights list)
NextStore ==
  \/ DashMount
  \/ \E k \in StoreKinds : \E ok \in BOOLEAN :
       \E v \in (IF k = "buildings" THEN 0 ELSE 1)..1 :
         StoreResolve(k, ok, v)
  \/ Retry
  \/ Refresh
  \/ Generate
  \/ \E ok \in BOOLEAN : GenerateResolve(ok)

InitStore == Init /\ ver = "pin" /\ pins = <<>>

SpecStore == InitStore /\ [][NextStore]_vars

\* one Map instance with a user at the pointer
InitUi ==
  /\ InitMounts(1) /\ mapOk
  /\ InitTraf /\ InitPop /\ InitGhost /\ InitApps /\ InitDash
  /\ InitMore

NextUi == NextCore \/ NextPointer

SpecUi == InitUi /\ [][NextUi]_vars

\* ================================================================ claims
OverlaysOf(id) == {h \in onMap \cup RegMarkers(reg) : h[1] = id}

OverlayIds == {h[1] : h \in onMap}

Remounted == mountsLeft < MaxMounts - 1

\* C1: whatever sequence of snapshot applications, marker passes, style
\* reloads and unmount/remount has happened, no entity id has more than one
\* overlay: the registry's markers and the markers shown on the map hold at
\* most one handle per id.
C1_OneOverlayPerId == \A id \in Ids : Cardinality(OverlaysOf(id)) <= 1

\* reached: a second instance, its style loaded twice, a marker for every id
C1_Witness ==
  /\ mounted /\ Remounted
  /\ styleLoads >= 2
  /\ OverlayIds = Ids

\* C2 as stated: once a first snapshot S1 and then a second snapshot S2 have
\* been applied (the pass over S2 has finished), the map shows exactly one
\* overlay for every id of S2 and none for any other id.
C2_ExactlySecondSnapshot ==
  (/\ ver = "bld" /\ mounted /\ mapCur
   /\ prevSnap # NoSnap
   /\ buildingData # <<>> /\ ~passOn)
  => /\ OverlayIds = SeqIds(buildingData)
     /\ \A id \in Ids : Cardinality(OverlaysOf(id)) <= 1

\* the snapshot applied now equals the one applied before it
SameSnapshotTwice ==
  \/ ver = "bld" /\ mounted /\ buildingData # <<>> /\ prevSnap = buildingData
  \/ ver = "pin" /\ mounted /\ styleLoads >= 2 /\ prevSnap = pins

\* C3: when the same snapshot is applied twice in a row, also while a pass
\* over the same list is still running, every marker on the map is the
\* registry's entry for its id: there is no duplicate, and no marker (with
\* the popup handles its listeners own) is out of the registry's reach.
C3_SameSnapshotNoOrphan ==
  SameSnapshotTwice => \A h \in onMap : reg[h[1]] = h

\* reached: Map.tsx applies the snapshot again and has put up markers while
\* an earlier pass over the same list is still running
C3_Witness ==
  /\ SameSnapshotTwice
  /\ ver = "bld"
  /\ onMap # {}
  /\ passOn /\ buildingData \in zPasses

\* a step of a promise continuation of a dead instance
DeadContinuationStep ==
  \/ zFetches' < zFetches
  \/ zPasses' # zPasses /\ mounted' = mounted

\* C6: when a fetch that was in flight at unmount settles (a mount fetch or
\* the readings fetch of a marker pass), no marker is created, no registry
\* entry is added and no overlay changes.
C6_DeadFetchNoMutation ==
  [][DeadContinuationStep =>
       /\ onMap' = onMap
       /\ reg' = reg
       /\ zReg' = zReg /\ zReg = {}
       /\ open' = open]_vars

\* reached: continuations of a dead instance have run while the next
\* instance shows markers
C6_Witness ==
  /\ zRan
  /\ mounted /\ onMap # {}
  /\ zFetches = 0 /\ zPasses = {}

\* C4: whatever markers, buildings and empty map places are clicked, at most
\* one click popup is open: opening one closes the one open before.
C4_OneClickPopup == Cardinality(ClickPopupsOpen) <= 1

\* reached: two different markers have been clicked and the popup of the
\* latest click is the only click popup open
C4_Witness ==
  /\ Cardinality(closeL) >= 2
  /\ clickRef # None
  /\ ClickPopupsOpen = {clickRef}

\* C7: after the Map has unmounted, no marker of its registry is left on the
\* map, the registry is empty, and no hover, click or road popup is open.
C7_UnmountLeavesNothing ==
  ~mounted => (onMap = {} /\ RegSize(reg) = 0 /\ open = {})

\* reached: the unmount found markers, an open click popup and an open hover
\* popup
C7_Witness ==
  /\ ~mounted
  /\ {"marker", "cp", "hp"} \subseteq atUnmount

\* C9 as stated: a timer callback that fires after the Map was torn down
\* raises no error.
C9_LateTimerRaisesNothing == ~lateErrors

\* C8 as stated: both periodic timers run from the mount of their component
\* on, and none is pending once the component is torn down.
C8_TimersFromMount ==
  /\ appsMounted => wTimer = 1
  /\ mounted => tTimers = 1
  /\ ~appsMounted => wTimer = 0
  /\ ~mounted => tTimers = 0

\* C8, amended: the weather refresh interval runs from the mount of the
\* weather page on; the traffic cycle interval runs exactly while the Map is
\* mounted and holds a non-empty traffic list; no periodic timer is pending
\* once its component is torn down.
C8_PeriodicTimers ==
  /\ appsMounted => wTimer = 1
  /\ mounted => tTimers = (IF trafficData > 0 THEN 1 ELSE 0)
  /\ ~appsMounted => wTimer = 0
  /\ ~mounted => tTimers = 0

\* reached: both components were unmounted while their interval was running
C8_Witness ==
  /\ ~mounted /\ ~appsMounted
  /\ {"traffic", "weather"} \subseteq atUnmount

\* a fetch fails: a store fetch, or the buildings fetch of the Map itself
FetchFails ==
  \/ \E k \in StoreKinds : StoreResolve(k, FALSE, 1)
  \/ \E S \in Snapshots : ResolveBuildings(FALSE, S)

\* C5 as stated: when a fetch fails, on initial load or on refresh, every
\* overlay rendered before the failure is still rendered after it.
C5_FailureKeepsOverlays == [][FetchFails => onMap \subseteq onMap']_vars

\* C10 as stated: whenever no request is in flight any more and the response
\* that arrived last was a success, the state shown is that of this
\* response: its data, not an error of an earlier request.
C10_LastArrivalShown ==
  (/\ dashMounted
   /\ \A k \in StoreKinds : sReqs[k] = 0
   /\ sLast # None /\ sLast[2])
  => (~sError /\ sData[sLast[1]] = 1 /\ ~sLoading)

\* the cases that some view presents as active: the store's selection and
\* the cases of the highlighted markers
ActiveCases ==
  ({activeStudyCase} \ {"none"}) \cup {CaseOf(h[1]) : h \in hl}

C12_OneActiveCase ==
  /\ Cardinality(ActiveCases) <= 1
  /\ (Len(selTrace) = 2 /\ selTrace[1][1] # selTrace[2][1])
       => (activeStudyCase = selTrace[2][1] /\ ActiveCases = {selTrace[2][1]})

\* reached: two different cases have been selected one after the other and
\* the marker of the second is the highlighted one
C12_Witness ==
  /\ Len(selTrace) = 2
  /\ selTrace[1][1] # selTrace[2][1]
  /\ hl # {}
  /\ \A h \in hl : CaseOf(h[1]) = selTrace[2][1]

\* C13 as stated: once the marker pass over a snapshot has finished, an
\* entity with missing or invalid coordinates has no overlay, it has been
\* reported as a warning and not as an error, every other entity of the
\* snapshot has its overlay, and the pass has not failed.
C13_BadCoordsSkippedWithWarning ==
  (/\ mounted /\ mapCur
   /\ buildingData # <<>> /\ ~passOn
   /\ SeqIds(buildingData) \cap badCoords # {})
  => /\ OverlayIds = SeqIds(buildingData) \ badCoords
     /\ coordReports = {"warn"}
     /\ ~passFailed

HoverPopupsOpen == {p \in open : p[1] = "hp"}

\* C15: a marker's hover popup is on the map only while the pointer is over
\* that marker: the pointer-leave that follows the pointer-enter closes it,
\* whether or not a click popup is open, and no opening or closing of a
\* click popup leaves a hover popup behind.
C15_HoverClosesOnLeave ==
  \A p \in HoverPopupsOpen : pointer = <<"m", p[2]>>

\* reached: the pointer has left a marker whose hover popup was open beside
\* a click popup, and the click popup is still open
C15_Witness ==
  /\ leftWhile
  /\ pointer = None
  /\ ClickPopupsOpen # {}

\* a store fetch settles with a failure
StoreFailStep ==
  /\ sLast' # None /\ ~sLast'[2]
  /\ \E k \in StoreKinds : sReqs'[k] < sReqs[k]

\* the Retry button of the error card is pressed
RetryStep == rDone' = "pending" /\ rPend' = StoreKinds /\ rPend # StoreKinds

\* the last request of the latest Retry settles and all of them succeeded
RetrySucceedsStep == rDone = "pending" /\ rDone' = "ok"

\* C16 as stated: a failed fetch leaves the error card with its Retry
\* button; pressing Retry starts a new fetch for every resource; and when
\* that fetch has succeeded, the error is cleared and the Dashboard shows
\* the data instead of the error card.
C16_RetryRecovers ==
  [][/\ StoreFailStep => ErrorBranch(sError')
     /\ RetryStep => \A k \in StoreKinds : sReqs'[k] > sReqs[k]
     /\ RetrySucceedsStep => (~sError' /\ ~ErrorBranch(sError'))]_vars

\* C17 as stated: when the insights request has failed, the analysis panel
\* is rendered and shows a static local suggestion list, not an error card,
\* a spinner or an empty panel.
C17_PanelFallsBack ==
  (dashMounted /\ sLast # None /\ sLast[1] = "insights" /\ ~sLast[2])
  => PanelShows = "static"

\* C19: when fetchBuildings, fetchInsights, fetchStats or fetchMapData
\* fails, the error is set, loading is false, the store's data (buildings,
\* insights, stats, mapData, pinpoints, activeStudyCase) is what it was, and
\* the promise of the action resolves.
C19_FailureFrame ==
  [][StoreFailStep =>
       /\ sError' /\ ~sLoading'
       /\ sData' = sData
       /\ pins' = pins
       /\ activeStudyCase' = activeStudyCase
       /\ sLast'[3] = "resolved"]_vars

\* reached: a fetch has failed for a resource that was loaded before, and
\* the loaded data is still in the store
C19_Witness ==
  /\ sLast # None /\ ~sLast[2]
  /\ sLast[1] \in StoreKinds
  /\ sData[sLast[1]] = 1
  /\ sError /\ ~sLoading

\* the store operations in flight: the fetches and generateFast
InFlight == sGen + Cardinality({k \in StoreKinds : sReqs[k] > 0})

\* C20 as stated: loading is true whenever an operation of the store is in
\* flight, and it turns false only in a step after which none is in flight.
C20_LoadingWhileInFlight ==
  [][/\ InFlight' > 0 => sLoading'
     /\ (sLoading /\ ~sLoading') => InFlight' = 0]_vars

\* C18: the requests a mounted weather page has issued are one for its
\* mount, one for every tick of its 5-minute interval and one for every
\* press of Try Again, and no others; an unmounted page has issued none.
C18_FetchOncePerTick ==
  /\ appsMounted => wIssued = 1 + wTicks + wRetries
  /\ ~appsMounted => (wIssued = 0 /\ wTimer = 0)

\* reached: the mounted page has fetched at its mount and again on a tick
C18_Witness ==
  /\ appsMounted
  /\ wTicks >= 1
  /\ wIssued = MaxWeatherReqs

\* ----------------------------------------------------- generateAllData
\* the store and the Dashboard on a database that is empty until data is
\* generated: the buildings list may come back empty
NextGen ==
  \/ DashMount
  \/ \E k \in StoreKinds : \E ok \in BOOLEAN :
       \E v \in (IF k = "buildings" THEN 0..1 ELSE {1}) : StoreResolve(k, ok, v)
  \/ Generate
  \/ \E ok \in BOOLEAN : GenerateResolve(ok)

SpecGen == InitStore /\ [][NextGen]_vars

NextModal ==
  \/ DashMount
  \/ \E k \in StoreKinds : \E ok \in BOOLEAN : StoreResolve(k, ok, 1)
  \/ Retry
  \/ \E b \in Ids : BuildingClick(b)
  \/ CloseModal
  \/ \E b \in Ids : \E ok \in BOOLEAN : ModalResolve(b, ok)

SpecModal == InitStore /\ [][NextModal]_vars

\* C22 as stated: whenever the modal is shown for a selected building and
\* is not loading, the readings and insights it holds are those fetched for
\* that building (or it holds none yet), whatever the order in which the
\* responses for successively selected buildings arrived or failed.
C22_HoldsSelected ==
  (/\ dashMounted /\ ~ErrorBranch(sError)
   /\ isModalOpen /\ selectedBuilding # 0
   /\ ~mLoading /\ mHeld # 0)
  => mHeld = selectedBuilding

\* ------------------------------------------------------ AnalysisPanel
\* the Dashboard with its store and the panel; an insights response may
\* carry an empty list.  Every request settles at some time.
NextPanel ==
  \/ DashMount
  \/ \E k \in StoreKinds : \E ok \in BOOLEAN :
       \E v \in (IF k = "insights" THEN 0..1 ELSE {1}) : StoreResolve(k, ok, v)
  \/ Retry

\* a request for resource k settles
Settles(k) ==
  \E ok \in BOOLEAN : \E v \in (IF k = "insights" THEN 0..1 ELSE {1}) :
    StoreResolve(k, ok, v)

SpecPanel ==
  /\ InitStore /\ [][NextPanel]_vars
  /\ \A k \in StoreKinds : WF_vars(Settles(k))

\* C23 as stated: the insight fetches started while the panel is mounted
\* are finitely many: from some time on no insights request is in flight,
\* whatever the backend answers.
C23_PanelStopsFetching == <>[](sReqs["insights"] = 0)

\* ------------------------------------------- traffic, weather and alerts
\* an effect that throws unmounts the tree before anything else happens
Committed == ~EffectPending

\* the state before the first of n mounts of Map.tsx, with endpoints that
\* hold any of the lists of fs and ws
InitMapWith(n, fs, ws) ==
  /\ InitMounts(n) /\ ver = "bld" /\ mapOk
  /\ InitTraf /\ InitPop /\ InitGhost /\ InitApps /\ InitDash /\ InitRest
  /\ \E f \in fs : \E w \in ws : InitWx(f, w)

\* one Map.tsx instance with its traffic and weather endpoints, the 3 s
\* interval and the 'o' key
NextAlert ==
  \/ MountMap
  \/ Committed /\ \E ok \in BOOLEAN : \E n \in 0..MaxTraffic : ResolveTraffic(ok, n)
  \/ Committed /\ \E ok \in BOOLEAN : \E n \in 0..MaxForecast : ResolveWeather(ok, n)
  \/ Committed /\ TrafficTick
  \/ Committed /\ KeyPress
  \/ Committed /\ Unmount
  \/ EffectThrows

SpecAlert == InitMapWith(1, Feeds, Forecasts) /\ [][NextAlert]_vars

\* Map.tsx over several mounts with its weather endpoint, the 'o' key and
\* the clock; the traffic endpoint does not answer
NextMail ==
  \/ MountMap
  \/ Committed /\ \E ok \in BOOLEAN : \E n \in 0..MaxForecast : ResolveWeather(ok, n)
  \/ Committed /\ KeyPress
  \/ Committed /\ Unmount
  \/ EffectThrows
  \/ Advance

SpecMail == InitMapWith(MaxMounts, {DefaultFeed}, Forecasts) /\ [][NextMail]_vars

\* one Map.tsx instance with its traffic endpoint, the 3 s interval and
\* the style load; the weather endpoint does not answer
NextRoads ==
  \/ MountMap
  \/ \E ok \in BOOLEAN : \E n \in 0..MaxTraffic : ResolveTraffic(ok, n)
  \/ TrafficTick
  \/ StyleLoadBld
  \/ \E t \in timers : LayerTimerFire(t)
  \/ Unmount

SpecRoads == InitMapWith(1, Feeds, {DefaultForecast}) /\ [][NextRoads]_vars

\* C24 as stated: whenever weatherData is non-empty, currentWeatherIndex is
\* an integer in 0..weatherData.length-1.
C24_IndexInRange ==
  (mounted /\ weatherData > 0) => currentWeatherIndex \in 0..(weatherData - 1)

\* C25: with n > 0 data points loaded, after the k-th tick (1 <= k <=
\* MaxTicks) of the 3 s interval the data point applied by it is the one at
\* index (k-1) mod n, and the volumes shown are the volumes of that point.
C25_TickAppliesInOrder ==
  (mounted /\ trafficData > 0 /\ ticks \in 1..MaxTicks)
  => /\ applied = (ticks - 1) % trafficData
     /\ trafficVolumeNB = Volume(feed[applied + 1][1])
     /\ trafficVolumeSB = Volume(feed[applied + 1][2])

\* reached: the list is longer than one point and a tick has wrapped to
\* the first point after the last
C25_Witness ==
  /\ mounted /\ trafficData > 1
  /\ ticks = trafficData + 1 /\ ticks <= MaxTicks
  /\ applied = 0

\* the weather record the alert rule reads, when it exists
CurrentWeather == forecast[currentWeatherIndex + 1]

\* C26: after each evaluation of the weather-alert rule (the list is
\* non-empty and the index names a record), the alert is shown if and only
\* if weather is Rainy and max(NB, SB) > 65, or Thunder Storm and max > 35,
\* or Ice and max > 15.
C26_AlertRule ==
  (mounted /\ weatherData > 0 /\ currentWeatherIndex \in 0..(weatherData - 1))
  => (showAlert <=>
        \/ CurrentWeather = "Rainy"
             /\ (trafficVolumeNB > 65 \/ trafficVolumeSB > 65)
        \/ CurrentWeather = "Thunder Storm"
             /\ (trafficVolumeNB > 35 \/ trafficVolumeSB > 35)
        \/ CurrentWeather = "Ice"
             /\ (trafficVolumeNB > 15 \/ trafficVolumeSB > 15))

\* reached: the rule was evaluated after a tick, in a thunder storm with
\* the larger volume at 36, and the alert is shown
C26_Witness ==
  /\ mounted /\ weatherData > 0 /\ ticks > 0
  /\ currentWeatherIndex \in 0..(weatherData - 1)
  /\ CurrentWeather = "Thunder Storm"
  /\ trafficVolumeNB = 36 /\ trafficVolumeSB < 36
  /\ showAlert

\* C27 as stated: no two alert e-mail requests are sent less than 10 000 ms
\* apart.
C27_MailsThrottled ==
  [][lastMail' # lastMail =>
       (lastMail = NaN \/ lastMail' - lastMail >= Throttle)]_vars

\* C29 as stated: whenever the Mass Ave road layers exist, their line
\* colours are getTrafficColor of the current northbound and southbound
\* volumes.
C29_RoadColoursCurrent ==
  roads # None =>
    roads = <<getTrafficColor(trafficVolumeNB),
              getTrafficColor(trafficVolumeSB)>>

\* C28 as stated: whenever pinpoint markers exist on the map, a marker is
\* drawn highlighted if and only if the type of its pinpoint is the active
\* study case of the store.
C28_HighlightMatchesStore ==
  (mounted /\ RegMarkers(reg) # {})
  => \A h \in RegMarkers(reg) :
       (h \in hl) <=> (CaseOf(h[1]) = activeStudyCase)

====
